---- MODULE Spec2Model ----
(***************************************************************************)
(* Model of the Portworx network monitor (src/main.go).  The file holds    *)
(* two variants of the program: the WaitGroup variant (lines 1-290) and    *)
(* the simple variant (lines 292-478).  Both start the same way (flags,    *)
(* local address, membership query, mode switch); they differ in the run   *)
(* loop.  The variable `variant` says which of the two programs runs.      *)
(*                                                                         *)
(* Time is counted in ticks of 100 seconds: the 5 minute deadline of a     *)
(* cycle (line 248) is CycleDeadline = 3 ticks, and the -frequency flag    *)
(* takes the values 0 s, 100 s, 200 s, ... (0, 1, 2, ... ticks); with 0    *)
(* time.Sleep returns at once, so that any number of iterations start      *)
(* within one deadline.  Every statement of the program takes no time;     *)
(* time passes only while the program waits (a running ping command,       *)
(* time.Sleep, time.After).  Contexts made in the same tick are not told   *)
(* apart: their deadline goroutines wake in the same tick, and when a new  *)
(* iteration starts the probes of the one before are over.                 *)
(***************************************************************************)
EXTENDS Integers, Sequences, FiniteSets, TLC

VARIABLES
    pc,            \* position of the main goroutine
    variant,       \* "wg" (main, line 219) or "simple" (main, line 444)
    r,             \* the -r flag
    frequency,     \* the -frequency flag, in ticks
    localIP,       \* the global localIP ("" until set)
    nodesNil,      \* whether the global nodes is still nil
    nodes,         \* the global nodes, a sequence of addresses
    srcUp,         \* environment: whether the membership source (pxctl) answers
    cycle,         \* identity of the context made by the current iteration
    ctxDone,       \* identities of the cycle contexts that are cancelled (of
                   \* those the program still refers to)
    timers,        \* timers[c]: ticks left of the time.After of the deadline
                   \* goroutines of the contexts c, -1: none is pending
    elapsed,       \* ticks since the current iteration started
    i,             \* index of the range loop over nodes
    wg,            \* the WaitGroup counter of the current iteration
    pstate,        \* pstate[p]: position of the probe goroutine of nodes[p]
    ret,           \* ret[p]: what pingNode returned to that goroutine
    results,       \* the buffered channel results (indices of nodes)
    errs,          \* the buffered channel errs (indices of nodes)
    resultsClosed, \* close(results) was executed
    errsClosed,    \* close(errs) was executed
    closer,        \* position of the goroutine of lines 273-277
    sleepRem,      \* ticks left of time.Sleep
    log,           \* per node index: events handed to the logger in this cycle
    sLive,         \* simple variant: sLive[p] running pingNode goroutines for nodes[p]
    svcOps,        \* the systemd / file operations executed, in order
    everLaunched,  \* a probe goroutine was started at some time
    fetchErrs,     \* membership-fetch failures reported to the logger
    failed,        \* the local address or the membership could not be obtained
    srcDown,       \* the membership source was down when the current iteration began
    cyclesDone,    \* completed iterations of the run loop (capped)
    prevNodes,     \* the peer list the previous iteration ranged over
    hitAtCancel    \* probes whose command was running when their cycle's cancel fired

vars == <<pc, variant, r, frequency, localIP, nodesNil, nodes, srcUp,
          cycle, ctxDone, timers, elapsed, i, wg, pstate, ret, ret, results, errs,
          resultsClosed, errsClosed, closer, sleepRem, log, sLive, svcOps,
          everLaunched, fetchErrs, failed, srcDown, cyclesDone, prevNodes,
          hitAtCancel>>

--------------------------------------------------------------------------
\* Bounds of the model and constants of the program

\* the addresses the membership source reports
Addrs == {"10.0.0.1", "10.0.0.2"}

\* the addresses of this node: what `hostname -I` prints first and what the
\* -ip flag is set to
HostAddrs == {"10.0.0.1"}

MaxNodes == 2

MaxFreq == 2

MaxLive == 2

MaxCycles == 2

CycleDeadline == 3

PIdx == 1..MaxNodes

CycleIds == 1..(CycleDeadline + 1)

NodeLists == UNION {[1..n -> Addrs] : n \in 0..MaxNodes}

NoLog == [res |-> 0, err |-> 0, ping |-> 0]

\* the process runs: it has not exited (Fatalf), returned from main or panicked
Alive == pc \notin {"exit", "returned", "panic"}

\* the bound of the model on the simple variant: the program can have any
\* number of pingNode goroutines running; from a state in which an entry
\* has more than MaxLive of them the model explores no further (no step
\* of the program, and no tick, is taken from it)
WithinBounds == \A p \in PIdx : sLive[p] <= MaxLive

\* groups of variables, for UNCHANGED
cfgVars == <<variant, r, frequency, localIP, nodesNil, nodes>>

ctxVars == <<cycle, ctxDone, timers, hitAtCancel>>

chanVars == <<results, errs, resultsClosed, errsClosed>>

probeVars == <<wg, pstate, ret>>

startVars == <<fetchErrs, failed, svcOps>>

iterVars == <<cyclesDone, prevNodes, srcDown>>

\* everything the run loop works on (untouched during startup and install)
loopVars == <<ctxVars, chanVars, probeVars, iterVars, elapsed, i, closer, sleepRem,
              log, sLive, everLaunched>>

--------------------------------------------------------------------------
\* Initial state: the process of one of the two programs has started, main
\* has not executed a statement yet.  The membership source is up or down
\* (the environment).

Init ==
    /\ pc = "start"
    /\ variant \in {"wg", "simple"}
    /\ r = FALSE
    /\ frequency = 1
    /\ localIP = ""
    /\ nodesNil = TRUE
    /\ nodes = <<>>
    /\ srcUp \in BOOLEAN
    /\ cycle = 0
    /\ ctxDone = {}
    /\ timers = [c \in CycleIds |-> -1]
    /\ elapsed = 0
    /\ i = 0
    /\ wg = 0
    /\ pstate = [p \in PIdx |-> "none"]
    /\ ret = [p \in PIdx |-> "none"]
    /\ results = <<>>
    /\ errs = <<>>
    /\ resultsClosed = FALSE
    /\ errsClosed = FALSE
    /\ closer = "none"
    /\ sleepRem = 0
    /\ log = [p \in PIdx |-> NoLog]
    /\ sLive = [p \in PIdx |-> 0]
    /\ svcOps = <<>>
    /\ everLaunched = FALSE
    /\ fetchErrs = 0
    /\ failed = FALSE
    /\ srcDown = FALSE
    /\ cyclesDone = 0
    /\ prevNodes = <<>>
    /\ hitAtCancel = {}

--------------------------------------------------------------------------
\* Startup (both variants): flags, local address, membership, mode switch

\* lines 221-223 (WaitGroup variant only): setupLogging, then logger.Info.
\* When os.MkdirAll fails setupLogging returns nil and logger.Info on the
\* nil logger panics; when rotatelogs.New fails log.Fatalf exits; otherwise
\* main goes on to the flags.
setupLogging ==
    /\ pc = "start"
    /\ variant = "wg"
    /\ \E out \in {"ok", "mkdirfail", "rotatefail"} :
         pc' = IF out = "ok" THEN "flags"
               ELSE IF out = "mkdirfail" THEN "panic" ELSE "exit"
    /\ UNCHANGED <<cfgVars, srcUp, startVars, loopVars>>

\* flag.Parse and the -ip test: a command line that flag.Parse rejects (a
\* value that is no int, an undefined flag, -h) ends the process in
\* os.Exit with no flag read and nothing fetched; otherwise with -ip set
\* localIP is the flag's value, without it getLocalIP is called.  In the
\* simple variant these are the first statements of main.
ParseFlags ==
    /\ pc = IF variant = "wg" THEN "flags" ELSE "start"
    /\ \/ /\ pc' = "exit"
          /\ UNCHANGED <<r, frequency, localIP>>
       \/ \E rr \in BOOLEAN, f \in 0..MaxFreq, ip \in HostAddrs \cup {""} :
            /\ r' = rr
            /\ frequency' = f
            /\ IF ip = ""
                 THEN /\ pc' = "getLocalIP"
                      /\ localIP' = localIP
                 ELSE /\ pc' = "checkNodes"
                      /\ localIP' = ip
    /\ UNCHANGED <<variant, nodesNil, nodes, srcUp, startVars, loopVars>>

\* getLocalIP: `hostname -I` fails, prints nothing, or prints addresses of
\* which the first is taken.  Both failures end in logger.Fatalf (exit).
getLocalIP ==
    /\ pc = "getLocalIP"
    /\ \E out \in {"execfail", "empty"} \cup HostAddrs :
         IF out \in HostAddrs
           THEN /\ localIP' = out
                /\ pc' = "checkNodes"
                /\ failed' = failed
           ELSE /\ localIP' = localIP
                /\ pc' = "exit"
                /\ failed' = TRUE
    /\ UNCHANGED <<variant, r, frequency, nodesNil, nodes, srcUp, fetchErrs, svcOps,
                   loopVars>>

\* if nodes == nil { getNodes() }
CheckNodes ==
    /\ pc = "checkNodes"
    /\ pc' = IF nodesNil THEN "getNodes" ELSE "mode"
    /\ UNCHANGED <<cfgVars, srcUp, startVars, loopVars>>

\* variation: a failure of the membership query is logged with Errorf, not
\* Fatalf, and main goes on with an empty list
getNodes_noFatal ==
    /\ pc = "getNodes"
    /\ \/ /\ nodes' = <<>>
          /\ nodesNil' = FALSE
          /\ failed' = TRUE
          /\ fetchErrs' = fetchErrs + 1
          /\ pc' = "mode"
       \/ /\ srcUp
          /\ \E out \in NodeLists :
               /\ nodes' = out
               /\ nodesNil' = FALSE
               /\ pc' = "mode"
               /\ UNCHANGED <<failed, fetchErrs>>
    /\ UNCHANGED <<variant, r, frequency, localIP, srcUp, svcOps, loopVars>>

\* getNodes: the pxctl command fails (source down), its output does not
\* parse, or it yields the list of DataIp values.  Failures are Fatalf,
\* which reports the failure and exits.
getNodes ==
    /\ pc = "getNodes"
    /\ IF ~srcUp
         THEN /\ pc' = "exit"
              /\ failed' = TRUE
              /\ fetchErrs' = fetchErrs + 1
              /\ UNCHANGED <<nodes, nodesNil>>
         ELSE \/ /\ pc' = "exit"          \* json.Unmarshal fails
                 /\ failed' = TRUE
                 /\ fetchErrs' = fetchErrs + 1
                 /\ UNCHANGED <<nodes, nodesNil>>
              \/ \E out \in NodeLists :
                   /\ nodes' = out
                   /\ nodesNil' = FALSE
                   /\ pc' = "mode"
                   /\ UNCHANGED <<failed, fetchErrs>>
    /\ UNCHANGED <<variant, r, frequency, localIP, srcUp, svcOps, loopVars>>

\* line 240: main enters the run loop when `run` holds and calls
\* installService otherwise
ModeSwitchOn(run) ==
    /\ pc = "mode"
    /\ pc' = IF run THEN "loop" ELSE "rmStop"
    /\ UNCHANGED <<cfgVars, srcUp, startVars, loopVars>>

\* variation: the test of line 240 is `if *r` instead of `if !*r`
ModeSwitch_inverted == ModeSwitchOn(~r)

\* if !*r { installService(...) } else { for { ... } }
ModeSwitch == ModeSwitchOn(r)

--------------------------------------------------------------------------
\* installService and removeService (the same in both variants)

\* one command or file operation `op`, run at position `from`, which
\* succeeds or fails; main continues at okNext or failNext
SvcStep(from, op, okNext, failNext) ==
    /\ pc = from
    /\ \E ok \in BOOLEAN :
         /\ svcOps' = Append(svcOps, [op |-> op, ok |-> ok])
         /\ pc' = IF ok THEN okNext ELSE failNext
    /\ UNCHANGED <<cfgVars, srcUp, fetchErrs, failed, loopVars>>

\* removeService: stop, disable, daemon-reload; a failure is only logged
rmStop == SvcStep("rmStop", "stop", "rmDisable", "rmDisable")

rmDisable == SvcStep("rmDisable", "disable", "rmReload", "rmReload")

rmReload == SvcStep("rmReload", "rm-reload", "rmFile", "rmFile")

\* os.Stat(serviceFile): when the file exists it is removed (which may fail)
rmFile ==
    \/ /\ pc = "rmFile"
       /\ pc' = "svcWrite"
       /\ UNCHANGED <<cfgVars, srcUp, startVars, loopVars>>
    \/ SvcStep("rmFile", "remove", "svcWrite", "svcWrite")

\* installService: write the unit file, daemon-reload, enable, start,
\* status; the first failure returns
svcWrite == SvcStep("svcWrite", "write", "svcReload", "returned")

\* variation: the `return` of line 144 is missing
svcReload_noReturn == SvcStep("svcReload", "reload", "svcEnable", "svcEnable")

svcReload == SvcStep("svcReload", "reload", "svcEnable", "returned")

svcEnable == SvcStep("svcEnable", "enable", "svcStart", "returned")

svcStart == SvcStep("svcStart", "start", "svcStatus", "returned")

\* out, _ := systemctl status: its error is ignored
svcStatus == SvcStep("svcStatus", "status", "returned", "returned")

--------------------------------------------------------------------------
\* The run loop of the WaitGroup variant (lines 243-288)

\* what the run loop of the WaitGroup variant never touches
wgFrame == <<cfgVars, srcUp, startVars, sLive>>

\* Contexts are numbered by age: the context of the current iteration is
\* 1, the one made before it 2, and so on.  An iteration that starts in the
\* tick in which the context of the iteration before it was made (its
\* timer has the whole deadline left) is not told apart from it and
\* shares its number.
SameTick == cycle /= 0 /\ timers[cycle] = CycleDeadline

\* the timers when a new context is made: the new one has the whole
\* deadline before it, every other context is one older.  The oldest
\* number is free: the contexts with a pending deadline goroutine were
\* made in different ticks of the last CycleDeadline ticks.
AgedTimers ==
    IF SameTick
      THEN timers
      ELSE [c \in CycleIds |-> IF c = 1 THEN CycleDeadline ELSE timers[c - 1]]

\* the cancelled contexts when a new context is made: the new one is not
\* cancelled, and a context without a pending deadline goroutine is
\* garbage (nothing refers to it)
AgedDone ==
    IF SameTick
      THEN ctxDone \ {cycle}
      ELSE {c + 1 : c \in {d \in ctxDone : timers[d] >= 0}}

\* lines 244-254: a fresh context, its deadline goroutine, a fresh
\* WaitGroup and two fresh channels of capacity len(nodes).  The global
\* nodes is not fetched again.
StartIteration ==
    /\ pc = "loop"
    /\ variant = "wg"
    /\ cycle' = 1
    /\ ctxDone' = AgedDone
    /\ timers' = AgedTimers
    /\ hitAtCancel' = {}
    /\ elapsed' = 0
    /\ wg' = 0
    /\ results' = <<>>
    /\ errs' = <<>>
    /\ resultsClosed' = FALSE
    /\ errsClosed' = FALSE
    /\ pstate' = [p \in PIdx |-> "none"]
    /\ ret' = [p \in PIdx |-> "none"]
    /\ closer' = "none"
    /\ log' = [p \in PIdx |-> NoLog]
    /\ srcDown' = ~srcUp
    /\ i' = 1
    /\ pc' = "fanout"
    /\ UNCHANGED <<wgFrame, cyclesDone, prevNodes, sleepRem, everLaunched>>

\* variation: every iteration calls getNodes again, whose failure is Fatalf
NewCycle_refetch ==
    IF srcUp
      THEN StartIteration
      ELSE /\ pc = "loop"
           /\ variant = "wg"
           /\ pc' = "exit"
           /\ failed' = TRUE
           /\ fetchErrs' = fetchErrs + 1
           /\ UNCHANGED <<cfgVars, srcUp, svcOps, loopVars>>

\* the for loop of line 243 starts an iteration
NewCycle == StartIteration

\* lines 255-272, one turn of the range loop: an entry for which `skip`
\* holds is passed over, any other entry gets wg.Add and a goroutine
\* running pingNode; `add` is the argument of wg.Add
FanOutTurnAdding(skip, add) ==
    /\ pc = "fanout"
    /\ i <= Len(nodes)
    /\ IF skip
         THEN UNCHANGED <<wg, pstate, everLaunched>>
         ELSE /\ wg' = wg + add
              /\ pstate' = [pstate EXCEPT ![i] = "run"]
              /\ everLaunched' = TRUE
    /\ i' = i + 1
    /\ UNCHANGED <<wgFrame, pc, ret, ctxVars, chanVars, iterVars, elapsed, closer,
                   sleepRem, log>>

\* line 260 is wg.Add(1)
FanOutTurn(skip) == FanOutTurnAdding(skip, 1)

\* variation: the test of line 256 is missing, the local node is probed too
FanOut_noSkip == FanOutTurn(FALSE)

\* variation: line 260 (wg.Add) is missing, the goroutines are not counted
FanOut_noAdd == FanOutTurnAdding(localIP = nodes[i], 0)

FanOut == FanOutTurn(localIP = nodes[i])

\* line 273: after the range loop the closer goroutine is started and main
\* goes on to the range loop `first`
StartCloserThen(first) ==
    /\ pc = "fanout"
    /\ i > Len(nodes)
    /\ closer' = "wait"
    /\ pc' = first
    /\ UNCHANGED <<wgFrame, ctxVars, chanVars, probeVars, iterVars, elapsed, i,
                   sleepRem, log, everLaunched>>

\* variation: the two range loops of lines 280-285 are swapped, main
\* ranges over errs and not over results before it sleeps
StartCloser_errsFirst == StartCloserThen("errs")

\* line 280 follows: main ranges over results first
StartCloser == StartCloserThen("results")

\* the context handed to probe p (pingContext, a child of the cycle's ctx)
\* is done once the cycle's context is cancelled
PingCtxDone(p) == cycle \in ctxDone

\* pingNode returns to the goroutine of probe p with `how`; an error is
\* logged by pingNode itself (line 84)
PingEnds(p, how) ==
    /\ Alive
    /\ pstate[p] = "run"
    /\ pstate' = [pstate EXCEPT ![p] = "ret"]
    /\ ret' = [ret EXCEPT ![p] = how]
    /\ log' = IF how = "ok" THEN log ELSE [log EXCEPT ![p].ping = @ + 1]
    /\ UNCHANGED <<wgFrame, pc, wg, ctxVars, chanVars, iterVars, elapsed, i, closer,
                   sleepRem, everLaunched>>

\* pingNode, lines 81-87: the command ends by itself, with success or with
\* an error; this can happen as long as the command has not been killed
PingReturn(p) == \E how \in {"ok", "fail"} : PingEnds(p, how)

\* exec.CommandContext, lines 81-85: the command is killed because its
\* context is done, and cmd.Output returns an error
PingKilled(p) == PingCtxDone(p) /\ PingEnds(p, "killed")

\* lines 265-269: the goroutine sends its outcome, an error to errs and a
\* result to results; `drop` says for which return values nothing is sent.
\* Both channels hold `cap` values: a send to a full channel waits and a
\* send to a closed channel panics.
ProbeSendCap(p, drop, cap) ==
    /\ Alive
    /\ pstate[p] = "ret"
    /\ IF ret[p] \in drop
         THEN UNCHANGED <<results, errs, pc>>
         ELSE IF ret[p] = "ok"
           THEN /\ resultsClosed \/ Len(results) < cap
                /\ results' = IF resultsClosed THEN results ELSE Append(results, p)
                /\ pc' = IF resultsClosed THEN "panic" ELSE pc
                /\ errs' = errs
           ELSE /\ errsClosed \/ Len(errs) < cap
                /\ errs' = IF errsClosed THEN errs ELSE Append(errs, p)
                /\ pc' = IF errsClosed THEN "panic" ELSE pc
                /\ results' = results
    /\ pstate' = [pstate EXCEPT ![p] = "sent"]
    /\ UNCHANGED <<wgFrame, wg, ret, ctxVars, resultsClosed, errsClosed, iterVars,
                   elapsed, i, closer, sleepRem, log, everLaunched>>

\* lines 253-254: both channels are made with capacity len(nodes)
ProbeSendIf(p, drop) == ProbeSendCap(p, drop, Len(nodes))

\* variation: the channels are made with capacity len(nodes)-1
ProbeSend_smallChan(p) == ProbeSendCap(p, {}, Len(nodes) - 1)

\* variation: a goroutine whose command was killed returns without sending
ProbeSend_dropKilled(p) == ProbeSendIf(p, {"killed"})

ProbeSend(p) == ProbeSendIf(p, {})

\* lines 270 and 263: pingCancel() cancels the contexts in `cancelled` (the
\* probe's own, which nothing else looks at, so none of the cycle
\* contexts), then the deferred wg.Done() runs and the goroutine is over
ProbeDoneCancelling(p, cancelled) ==
    /\ Alive
    /\ pstate[p] = "sent"
    /\ pstate' = [pstate EXCEPT ![p] = "done"]
    /\ wg' = wg - 1
    /\ ctxDone' = ctxDone \cup cancelled
    /\ UNCHANGED <<wgFrame, pc, ret, cycle, timers, hitAtCancel, chanVars, iterVars,
                   elapsed, i, closer, sleepRem, log, everLaunched>>

\* variation: line 270 calls cancel (the cycle's) instead of pingCancel
ProbeDone_cancelCycle(p) == ProbeDoneCancelling(p, {cycle})

ProbeDone(p) == ProbeDoneCancelling(p, {})

\* lines 274-275: wg.Wait() returns when `ready` (the counter is zero), then
\* close(results)
CloserWaitFor(ready) ==
    /\ Alive
    /\ closer = "wait"
    /\ ready
    /\ resultsClosed' = TRUE
    /\ closer' = "closeErrs"
    /\ UNCHANGED <<wgFrame, pc, ctxVars, probeVars, results, errs, errsClosed,
                   iterVars, elapsed, i, sleepRem, log, everLaunched>>

\* variation: the closer does not call wg.Wait()
CloserWait_noWait == CloserWaitFor(TRUE)

CloserWait == CloserWaitFor(wg = 0)

\* line 276: close(errs) (`closes`), then the closer goroutine is over
CloserEnds(closes) ==
    /\ Alive
    /\ closer = "closeErrs"
    /\ errsClosed' = closes
    /\ closer' = "done"
    /\ UNCHANGED <<wgFrame, pc, ctxVars, probeVars, results, errs, resultsClosed,
                   iterVars, elapsed, i, sleepRem, log, everLaunched>>

\* variation: close(errs) is missing
CloserCloseErrs_noClose == CloserEnds(FALSE)

CloserCloseErrs == CloserEnds(TRUE)

\* lines 280-282: main receives one value from results and prints it; when
\* results is closed and empty the range loop ends
RecvResult ==
    /\ pc = "results"
    /\ IF results /= <<>>
         THEN /\ log' = [log EXCEPT ![Head(results)].res = @ + 1]
              /\ results' = Tail(results)
              /\ pc' = pc
         ELSE /\ resultsClosed
              /\ pc' = "errs"
              /\ UNCHANGED <<log, results>>
    /\ UNCHANGED <<wgFrame, ctxVars, probeVars, errs, resultsClosed, errsClosed,
                   iterVars, elapsed, i, closer, sleepRem, everLaunched>>

\* lines 283-285: the same for errs, each value is logged as "Ping failed";
\* after the loop main calls time.Sleep(frequency) (line 287)
RecvErr ==
    /\ pc = "errs"
    /\ IF errs /= <<>>
         THEN /\ log' = [log EXCEPT ![Head(errs)].err = @ + 1]
              /\ errs' = Tail(errs)
              /\ UNCHANGED <<pc, sleepRem, cyclesDone, prevNodes>>
         ELSE /\ errsClosed
              /\ pc' = "sleep"
              /\ sleepRem' = frequency
              /\ cyclesDone' = IF cyclesDone < MaxCycles THEN cyclesDone + 1 ELSE cyclesDone
              /\ prevNodes' = nodes
              /\ UNCHANGED <<log, errs>>
    /\ UNCHANGED <<wgFrame, ctxVars, probeVars, results, resultsClosed, errsClosed,
                   srcDown, elapsed, i, closer, everLaunched>>

\* line 287: time.Sleep returns when `over`, the for loop starts over
WakeWhen(over) ==
    /\ WithinBounds
    /\ pc = "sleep"
    /\ over
    /\ pc' = "loop"
    /\ UNCHANGED <<cfgVars, srcUp, startVars, loopVars>>

\* variation: line 287 is missing, the loop starts over at once
Wake_noSleep == WakeWhen(TRUE)

\* time.Sleep returns when the whole duration has passed
Wake == WakeWhen(sleepRem = 0)

\* lines 247-250: the deadline goroutine of cycle c wakes up and calls
\* cancel, which cancels the contexts in `cancelled`; the goroutine is then
\* over.  hitAtCancel notes the probes whose command the cancel of their own
\* cycle found running.
TimerFires(c, cancelled) ==
    /\ Alive
    /\ timers[c] = 0
    /\ timers' = [timers EXCEPT ![c] = -1]
    /\ ctxDone' = {d \in ctxDone \cup cancelled : d = cycle \/ timers'[d] >= 0}
    /\ hitAtCancel' = IF cycle \in cancelled /\ cycle \notin ctxDone
                        THEN {p \in PIdx : pstate[p] = "run"}
                        ELSE hitAtCancel
    /\ UNCHANGED <<wgFrame, pc, cycle, probeVars, chanVars, iterVars, elapsed, i,
                   closer, sleepRem, log, everLaunched>>

\* variation: ctx and cancel are declared outside the for loop, so every
\* deadline goroutine calls the cancel of the latest iteration
TimerFire_latestCancel(c) == TimerFires(c, {cycle})

\* variation: the deadline goroutine never calls cancel
TimerFire_noCancel(c) == TimerFires(c, {})

\* cancel is the cancel function of the context made in the same iteration
TimerFire(c) == TimerFires(c, {c})

--------------------------------------------------------------------------
\* The run loop of the simple variant (lines 467-476)

\* what the run loop of the simple variant never touches
simpleFrame == <<cfgVars, srcUp, startVars, ctxVars, chanVars, probeVars, elapsed,
                 closer, log>>

\* line 467/468: an iteration starts ranging over nodes
SimpleLoop ==
    /\ WithinBounds
    /\ pc = "loop"
    /\ variant = "simple"
    /\ i' = 1
    /\ srcDown' = ~srcUp
    /\ pc' = "sfanout"
    /\ UNCHANGED <<simpleFrame, cyclesDone, prevNodes, sleepRem, sLive, everLaunched>>

\* lines 468-474, one turn of the range loop: the local node is skipped, for
\* any other entry `go pingNode` is started and not waited for, however
\* many goroutines are already running
SimpleRange ==
    /\ WithinBounds
    /\ pc = "sfanout"
    /\ i <= Len(nodes)
    /\ IF localIP = nodes[i]
         THEN UNCHANGED <<sLive, everLaunched>>
         ELSE /\ sLive' = [sLive EXCEPT ![i] = @ + 1]
              /\ everLaunched' = TRUE
    /\ i' = i + 1
    /\ UNCHANGED <<simpleFrame, pc, iterVars, sleepRem>>

\* line 475: after the range loop main sleeps, whatever the probes do
SimpleSleep ==
    /\ WithinBounds
    /\ pc = "sfanout"
    /\ i > Len(nodes)
    /\ pc' = "sleep"
    /\ sleepRem' = frequency
    /\ cyclesDone' = IF cyclesDone < MaxCycles THEN cyclesDone + 1 ELSE cyclesDone
    /\ prevNodes' = nodes
    /\ UNCHANGED <<simpleFrame, srcDown, i, sLive, everLaunched>>

\* pingNode of the simple variant, lines 361-371: the command ends (there
\* is no context and no -W), the goroutine prints or logs and is over
SimplePingReturn(p) ==
    /\ Alive
    /\ WithinBounds
    /\ sLive[p] > 0
    /\ sLive' = [sLive EXCEPT ![p] = @ - 1]
    /\ UNCHANGED <<simpleFrame, pc, iterVars, i, sleepRem, everLaunched>>

--------------------------------------------------------------------------
\* Time and the environment

\* main can execute its next statement without waiting
MainReady ==
    \/ pc \in {"start", "flags", "getLocalIP", "checkNodes", "getNodes", "mode",
               "rmStop", "rmDisable", "rmReload", "rmFile", "svcWrite", "svcReload",
               "svcEnable", "svcStart", "svcStatus", "loop", "fanout", "sfanout"}
    \/ pc = "results" /\ (results /= <<>> \/ resultsClosed)
    \/ pc = "errs" /\ (errs /= <<>> \/ errsClosed)
    \/ pc = "sleep" /\ sleepRem = 0

\* a goroutine other than main can execute a statement without waiting: a
\* probe whose command has returned or whose context is done, the closer
\* once the WaitGroup is at zero, a deadline goroutine whose timer expired
GoroutineReady ==
    \/ \E p \in PIdx : pstate[p] \in {"ret", "sent"}
    \/ \E p \in PIdx : pstate[p] = "run" /\ PingCtxDone(p)
    \/ closer = "wait" /\ wg = 0
    \/ closer = "closeErrs"
    \/ \E c \in CycleIds : timers[c] = 0

\* one tick passes; no statement that is ready waits for it.  A running
\* command (whose context is not done) may take any number of ticks.
Tick ==
    /\ Alive
    /\ WithinBounds
    /\ ~MainReady
    /\ ~GoroutineReady
    /\ timers' = [c \in CycleIds |-> IF timers[c] > 0 THEN timers[c] - 1 ELSE timers[c]]
    /\ sleepRem' = IF pc = "sleep" THEN sleepRem - 1 ELSE sleepRem
    /\ elapsed' = IF pc \in {"fanout", "results", "errs"} /\ elapsed <= CycleDeadline
                    THEN elapsed + 1
                    ELSE elapsed
    /\ UNCHANGED <<cfgVars, srcUp, startVars, pc, cycle, ctxDone, hitAtCancel,
                   chanVars, probeVars, iterVars, i, closer, log, sLive, everLaunched>>

\* the membership source goes down or comes back while the run loop runs
SourceChange ==
    /\ WithinBounds
    /\ pc \in {"loop", "fanout", "results", "errs", "sleep", "sfanout"}
    /\ srcUp' = ~srcUp
    /\ UNCHANGED <<pc, cfgVars, startVars, loopVars>>

--------------------------------------------------------------------------
\* The program

Next ==
    \/ setupLogging
    \/ ParseFlags
    \/ getLocalIP
    \/ CheckNodes
    \/ getNodes
    \/ ModeSwitch
    \/ rmStop
    \/ rmDisable
    \/ rmReload
    \/ rmFile
    \/ svcWrite
    \/ svcReload
    \/ svcEnable
    \/ svcStart
    \/ svcStatus
    \/ NewCycle
    \/ FanOut
    \/ StartCloser
    \/ \E p \in PIdx : PingReturn(p)
    \/ \E p \in PIdx : PingKilled(p)
    \/ \E p \in PIdx : ProbeSend(p)
    \/ \E p \in PIdx : ProbeDone(p)
    \/ CloserWait
    \/ CloserCloseErrs
    \/ RecvResult
    \/ RecvErr
    \/ Wake
    \/ \E c \in CycleIds : TimerFire(c)
    \/ SimpleLoop
    \/ SimpleRange
    \/ SimpleSleep
    \/ \E p \in PIdx : SimplePingReturn(p)
    \/ Tick

\* every step but the end of a ping command by itself (a command may hang)
Progress ==
    \/ setupLogging
    \/ ParseFlags
    \/ getLocalIP
    \/ CheckNodes
    \/ getNodes
    \/ ModeSwitch
    \/ rmStop
    \/ rmDisable
    \/ rmReload
    \/ rmFile
    \/ svcWrite
    \/ svcReload
    \/ svcEnable
    \/ svcStart
    \/ svcStatus
    \/ NewCycle
    \/ FanOut
    \/ StartCloser
    \/ \E p \in PIdx : PingKilled(p)
    \/ \E p \in PIdx : ProbeSend(p)
    \/ \E p \in PIdx : ProbeDone(p)
    \/ CloserWait
    \/ CloserCloseErrs
    \/ RecvResult
    \/ RecvErr
    \/ Wake
    \/ \E c \in CycleIds : TimerFire(c)
    \/ SimpleLoop
    \/ SimpleRange
    \/ SimpleSleep
    \/ Tick

Spec == Init /\ [][Next]_vars

\* the program under a fair scheduler: a goroutine that can take a step
\* takes it, a killed command returns, and time passes
FairSpec == Spec /\ WF_vars(Progress)

\* the program with a membership source that changes while the loop runs
NextMember == Next \/ SourceChange

SpecMember == Init /\ [][NextMember]_vars

\* types of the variables
TypeOK ==
    /\ pc \in {"start", "flags", "getLocalIP", "checkNodes", "getNodes", "mode",
               "rmStop", "rmDisable", "rmReload", "rmFile", "svcWrite", "svcReload",
               "svcEnable", "svcStart", "svcStatus", "returned", "exit", "panic",
               "loop", "fanout", "results", "errs", "sleep", "sfanout"}
    /\ variant \in {"wg", "simple"}
    /\ r \in BOOLEAN
    /\ frequency \in 0..MaxFreq
    /\ localIP \in HostAddrs \cup {""}
    /\ nodes \in NodeLists
    /\ cycle \in {0, 1}
    /\ ctxDone \subseteq CycleIds
    /\ \A c \in CycleIds : timers[c] \in -1..CycleDeadline
    /\ elapsed \in 0..(CycleDeadline + 1)
    /\ wg \in 0..MaxNodes
    /\ \A p \in PIdx : pstate[p] \in {"none", "run", "ret", "sent", "done"}
    /\ \A p \in PIdx : ret[p] \in {"none", "ok", "fail", "killed"}
    /\ Len(results) <= MaxNodes
    /\ Len(errs) <= MaxNodes
    /\ sleepRem \in 0..MaxFreq
    /\ \A p \in PIdx : sLive[p] \in 0..(MaxLive + 1)
    /\ (pc = "loop" /\ variant = "wg" /\ ~SameTick) => timers[CycleDeadline + 1] = -1
    /\ SameTick => cycle \notin ctxDone
    /\ \A c \in ctxDone : c = cycle \/ timers[c] >= 0
    /\ \A c, d \in CycleIds : (c /= d /\ timers[c] >= 0) => timers[c] /= timers[d]

--------------------------------------------------------------------------
\* Properties

\* the value p is in the channel buffer ch
InChan(p, ch) == \E k \in 1..Len(ch) : ch[k] = p

\* outcomes of entry p that main has taken out of results and errs
Collected(p) == log[p].res + log[p].err

\* entry p of nodes is a peer to probe
IsPeer(p) == p <= Len(nodes) /\ nodes[p] /= localIP

\* main is between the start of a fan-out and the end of the reporting
InCycle == pc \in {"fanout", "results", "errs"}

\* C1 (completeness): in the WaitGroup variant no entry of nodes ever has
\* more than one outcome collected, and when the reporting loops are over
\* (main sleeps) every entry that differs from localIP has exactly one and
\* every other entry has none, so the number collected is the number of
\* entries that differ from localIP; this includes probes that were killed
\* by the cancellation.
C1_Completeness ==
    variant = "wg" =>
      /\ \A p \in PIdx : Collected(p) <= 1
      /\ pc = "sleep" =>
           /\ \A p \in PIdx : Collected(p) = IF IsPeer(p) THEN 1 ELSE 0
           /\ Cardinality({p \in PIdx : Collected(p) = 1})
                = Cardinality({p \in 1..Len(nodes) : nodes[p] /= localIP})

\* a cycle is over in which one probe was killed by the cancellation and
\* another one succeeded, and both outcomes were collected
C1_Witness ==
    /\ variant = "wg"
    /\ pc = "sleep"
    /\ \E p, q \in PIdx :
         /\ ret[p] = "killed" /\ log[p].err = 1
         /\ ret[q] = "ok" /\ log[q].res = 1

\* C2 (self-exclusion): in both variants every probe goroutine, every value
\* in a channel and every logged outcome belongs to an entry of nodes that
\* differs from localIP.
C2_SelfExclusion ==
    \A p \in PIdx :
      (pstate[p] /= "none" \/ sLive[p] > 0 \/ log[p] /= NoLog
         \/ InChan(p, results) \/ InChan(p, errs)) => IsPeer(p)

\* a cycle over a list that holds the local address and a peer is over,
\* and the peer was probed
C2_Witness ==
    /\ pc = "sleep"
    /\ \E p, q \in 1..Len(nodes) :
         /\ nodes[p] = localIP
         /\ pstate[q] = "done" \/ sLive[q] > 0

\* C3 (sequential cycles): in the WaitGroup variant, while main sleeps and
\* when it is about to start the next iteration, every probe goroutine of
\* the iteration is over and the WaitGroup counter is zero.
C3_Sequential ==
    (variant = "wg" /\ pc \in {"sleep", "loop"}) =>
      /\ wg = 0
      /\ \A p \in PIdx : pstate[p] \in {"none", "done"}

\* main is about to start a third iteration, the probes of the second are over
C3_Witness ==
    /\ variant = "wg"
    /\ pc = "loop"
    /\ cyclesDone = MaxCycles
    /\ \A p \in 1..Len(nodes) : pstate[p] = "done"
    /\ Len(nodes) = MaxNodes

\* C4 as claimed: every probe whose command was running when the cancel of
\* its cycle fired ends with a failure, never with a success.
C4_Original ==
    variant = "wg" => \A p \in hitAtCancel : ret[p] /= "ok"

\* C4 as amended: the context of the current cycle is cancelled only by its
\* own deadline (no other cycle's cancel reaches it); a command is killed
\* only by the cancel of its own cycle; that cancel reaches every probe
\* whose command is still running; a killed probe yields a failure and
\* never a result; and every probe the cancel found running ends with
\* exactly one outcome, which is a result only when its command ended by
\* itself with success.
C4_Amended ==
    variant = "wg" =>
      /\ (InCycle /\ cycle \in ctxDone) => elapsed = CycleDeadline
      /\ \A p \in PIdx : ret[p] = "killed" => p \in hitAtCancel
      /\ \A p \in hitAtCancel : pstate[p] = "run" => PingCtxDone(p)
      /\ \A p \in hitAtCancel :
           ret[p] = "killed" => (log[p].res = 0 /\ ~InChan(p, results))
      /\ pc = "sleep" =>
           \A p \in hitAtCancel :
             /\ Collected(p) = 1
             /\ log[p].res = 1 <=> ret[p] = "ok"

\* the cancel of a cycle found two commands running: one was killed and
\* logged as a failure, the other ended by itself with success
C4_Witness ==
    /\ variant = "wg"
    /\ pc = "sleep"
    /\ \E p, q \in hitAtCancel :
         /\ ret[p] = "killed" /\ log[p].err = 1
         /\ ret[q] = "ok" /\ log[q].res = 1

\* C5 (deadline bound): in the WaitGroup variant a cycle (fan-out,
\* collecting, reporting) never lasts more than CycleDeadline ticks, and
\* while it lasts time passes only as long as some command is running whose
\* context is not done.
C5_DeadlineBound ==
    (variant = "wg" /\ InCycle) =>
      /\ elapsed <= CycleDeadline
      /\ ENABLED Tick => \E p \in PIdx : pstate[p] = "run" /\ ~PingCtxDone(p)

\* main is in the reporting loop of a cycle that lasted the whole deadline
\* because a command had to be killed
C5_Witness ==
    /\ variant = "wg"
    /\ pc = "errs"
    /\ elapsed = CycleDeadline
    /\ \E p \in PIdx : ret[p] = "killed"

\* positions of main inside the run loop
LoopPcs == {"loop", "fanout", "results", "errs", "sleep", "sfanout"}

\* C6 (the scheduler never stops): in the WaitGroup variant main never
\* leaves the run loop, in every state of the run loop some step is
\* possible, and under fair scheduling every fan-out is followed by the
\* sleep that ends its cycle and every sleep by the next fan-out.
C6_NeverStops ==
    /\ [][(variant = "wg" /\ pc \in LoopPcs) => pc' \in LoopPcs]_vars
    /\ []((variant = "wg" /\ pc \in LoopPcs) => ENABLED Next)
    /\ (variant = "wg" /\ pc = "fanout") ~> (pc = "sleep")
    /\ (variant = "wg" /\ pc = "sleep") ~> (pc = "fanout")

\* a third fan-out over a list that holds only the local address
C6_Witness ==
    /\ variant = "wg"
    /\ pc = "fanout"
    /\ cyclesDone = MaxCycles
    /\ Len(nodes) > 0
    /\ \A p \in 1..Len(nodes) : nodes[p] = localIP

\* C7 as claimed: when main starts to sleep nothing the iteration created
\* is live: no probe goroutine, no closer goroutine, no deadline goroutine,
\* and the cycle's context is cancelled.
C7_Released ==
    (variant = "wg" /\ pc = "sleep") =>
      /\ \A p \in PIdx : pstate[p] \in {"none", "done"}
      /\ closer \in {"none", "done"}
      /\ timers[cycle] = -1
      /\ cycle \in ctxDone

\* C8 (isolation): in the WaitGroup variant a command is killed only when
\* the deadline of its cycle has come, whatever the other probes did; what
\* is sent, collected and logged for an entry is what its own command
\* returned; no probe failure ends the process; and the cycle ends with
\* the outcome of every peer collected.
C8_Isolation ==
    variant = "wg" =>
      /\ \A p \in PIdx : ret[p] = "killed" => elapsed = CycleDeadline
      /\ \A p \in PIdx : (InChan(p, results) \/ log[p].res > 0) => ret[p] = "ok"
      /\ \A p \in PIdx :
           (InChan(p, errs) \/ log[p].err > 0) => ret[p] \in {"fail", "killed"}
      /\ everLaunched => pc \in LoopPcs
      /\ pc = "sleep" => \A p \in PIdx : IsPeer(p) => Collected(p) = 1

\* a cycle ended before its deadline with a mixed result: one probe failed
\* and the other one succeeded
C8_Witness ==
    /\ variant = "wg"
    /\ pc = "sleep"
    /\ elapsed < CycleDeadline
    /\ \E p, q \in PIdx :
         /\ ret[p] = "fail" /\ log[p].err = 1
         /\ ret[q] = "ok" /\ log[q].res = 1

\* C9 (startup failures are fatal): once the local address or the
\* membership could not be obtained the process has exited, no probe was
\* ever started and no service operation was executed; and as long as main
\* is in the startup no probe is started and no service operation executed.
C9_StartupFatal ==
    /\ failed => (pc = "exit" /\ ~everLaunched /\ svcOps = <<>>)
    /\ pc \in {"start", "flags", "getLocalIP", "checkNodes", "getNodes", "mode",
               "exit"}
         => (~everLaunched /\ svcOps = <<>>)

\* the local address was found, the membership query failed, the process
\* has exited
C9_Witness ==
    /\ failed
    /\ pc = "exit"
    /\ localIP /= ""
    /\ fetchErrs = 1

\* C10 as claimed: a cycle that began with the membership source down,
\* after an earlier cycle, ends with a membership-fetch error reported.
C10_Original ==
    (pc = "sleep" /\ srcDown /\ cyclesDone >= 2) => fetchErrs >= 1

\* C10 as amended: once the run loop has started the process never exits,
\* no membership-fetch error is ever reported (the source is not queried
\* again), and every cycle ranges over the peer list of the cycle before
\* it, also when the source is down.
C10_Amended ==
    (r /\ (pc \in LoopPcs \/ cyclesDone >= 1 \/ everLaunched)) =>
      /\ pc \in LoopPcs
      /\ fetchErrs = 0
      /\ ~failed
      /\ cyclesDone >= 1 => nodes = prevNodes

\* the second cycle began with the source down and has ended; a peer was
\* probed and no fetch error was reported
C10_Witness ==
    /\ variant = "wg"
    /\ pc = "sleep"
    /\ srcDown
    /\ cyclesDone >= 2
    /\ fetchErrs = 0
    /\ \E p \in PIdx : Collected(p) = 1

\* C11 (cadence): in the WaitGroup variant main goes through fan-out, the
\* range over results, the range over errs, the sleep and back to the
\* start of the loop, in this order and no other; the sleep starts with
\* the whole configured frequency left and only time shortens it; while
\* main sleeps both channels are empty, no probe is live and every peer's
\* outcome has been reported; and whenever main is outside the sleep
\* nothing of a sleep is left, so the next fan-out starts only after the
\* whole sleep has passed.
C11_Cadence ==
    /\ [][(variant = "wg" /\ pc \in LoopPcs /\ pc' /= pc) =>
            <<pc, pc'>> \in {<<"loop", "fanout">>, <<"fanout", "results">>,
                             <<"results", "errs">>, <<"errs", "sleep">>,
                             <<"sleep", "loop">>}]_vars
    /\ [][(variant = "wg" /\ pc /= "sleep" /\ pc' = "sleep") =>
            sleepRem' = frequency]_vars
    /\ [][(variant = "wg" /\ pc = "sleep" /\ pc' = "sleep") =>
            sleepRem' \in {sleepRem, sleepRem - 1}]_vars
    /\ []((variant = "wg" /\ pc = "sleep") =>
            /\ results = <<>>
            /\ errs = <<>>
            /\ \A p \in PIdx : pstate[p] \in {"none", "done"}
            /\ \A p \in PIdx : IsPeer(p) => Collected(p) = 1)
    /\ []((variant = "wg" /\ pc \in {"loop", "fanout", "results", "errs"}) =>
            sleepRem = 0)

\* main is back at the start of the loop after a cycle that reported a
\* failure and a sleep of the longest frequency
C11_Witness ==
    /\ variant = "wg"
    /\ pc = "loop"
    /\ cyclesDone >= 1
    /\ frequency = MaxFreq
    /\ sleepRem = 0
    /\ \E p \in PIdx : log[p].err = 1

\* C12 as claimed: in the simple variant every probe started in a cycle has
\* finished before the next fan-out begins: when main is at the start of
\* the loop no pingNode goroutine is live, and no entry of nodes ever has
\* more than one live goroutine.
C12_NoneAbandoned ==
    variant = "simple" =>
      /\ pc = "loop" => \A p \in PIdx : sLive[p] = 0
      /\ \A p \in PIdx : sLive[p] <= 1

\* C13 (run mode is an exclusive switch): with -r no systemd or file
\* operation is ever executed and main, once past the switch, is in the
\* run loop; without -r no probe goroutine is ever started, main never is
\* in the run loop, removeService and the write of the unit file are each
\* executed at most once, and from installService main goes nowhere but
\* to its return, where it stays.
C13_ModeSwitch ==
    /\ [](r => (svcOps = <<>> /\ pc \notin {"rmStop", "rmDisable", "rmReload",
                                            "rmFile", "svcWrite", "svcReload",
                                            "svcEnable", "svcStart", "svcStatus",
                                            "returned"}))
    /\ [](~r => /\ ~everLaunched
                /\ \A p \in PIdx : pstate[p] = "none" /\ sLive[p] = 0
                /\ pc \notin LoopPcs
                /\ Cardinality({k \in 1..Len(svcOps) : svcOps[k].op = "stop"}) <= 1
                /\ Cardinality({k \in 1..Len(svcOps) : svcOps[k].op = "write"}) <= 1)
    /\ []((pc = "returned") => (Len(svcOps) >= 4 /\ svcOps[1].op = "stop"))
    /\ [][(pc \in {"rmStop", "rmDisable", "rmReload", "rmFile", "svcWrite",
                   "svcReload", "svcEnable", "svcStart", "svcStatus", "returned"})
            => pc' \in {"rmStop", "rmDisable", "rmReload", "rmFile", "svcWrite",
                        "svcReload", "svcEnable", "svcStart", "svcStatus",
                        "returned"}]_vars
    /\ [][(pc = "returned") => pc' = "returned"]_vars

\* without -r the whole installation was executed, down to the status
\* command, and main has returned
C13_Witness ==
    /\ ~r
    /\ pc = "returned"
    /\ svcOps[Len(svcOps)] = [op |-> "status", ok |-> TRUE]
    /\ nodes /= <<>>

\* C14 (reads after the writers have finished): in the WaitGroup variant,
\* once main has taken an outcome out of results or errs no probe
\* goroutine of the cycle has its send still before it (its command
\* running or just returned), and every probe has written at most one
\* value (in a channel or already taken out).
C14_ReadAfterWriters ==
    variant = "wg" =>
      /\ (\E p \in PIdx : Collected(p) > 0) =>
           \A q \in PIdx : pstate[q] \notin {"run", "ret"}
      /\ \A p \in PIdx :
           Cardinality({k \in 1..Len(results) : results[k] = p})
             + Cardinality({k \in 1..Len(errs) : errs[k] = p})
             + Collected(p) <= 1

\* C15 as claimed: in the WaitGroup variant the logger gets every probe
\* outcome exactly once and within its cycle: never more than one result
\* event and never more than one failure event for an entry, and when the
\* cycle is over (main sleeps) a probe that succeeded has produced one
\* result event and nothing else, a probe that failed or was killed has
\* produced one failure event and nothing else, and no outcome is left in
\* a channel for a later cycle.
C15_ExactlyOnce ==
    variant = "wg" =>
      /\ \A p \in PIdx : log[p].res <= 1 /\ log[p].err + log[p].ping <= 1
      /\ pc = "sleep" =>
           /\ results = <<>> /\ errs = <<>>
           /\ \A p \in PIdx :
                /\ ret[p] = "ok" => log[p] = [res |-> 1, err |-> 0, ping |-> 0]
                /\ ret[p] \in {"fail", "killed"} =>
                     (log[p].res = 0 /\ log[p].err + log[p].ping = 1)

\* C16 (order of installService): the executed operations start with the
\* stop, disable and daemon-reload of removeService, whatever their
\* results, followed by the removal of the unit file when it exists; the
\* unit file is written only after them; the daemon-reload of the
\* installation directly follows a successful write, enable a successful
\* reload, start a successful enable and status a successful start; and a
\* failed write, reload, enable or start is the last operation executed.
C16_InstallOrder ==
    \A k \in 1..Len(svcOps) :
      /\ k = 1 => svcOps[k].op = "stop"
      /\ k = 2 => svcOps[k].op = "disable"
      /\ k = 3 => svcOps[k].op = "rm-reload"
      /\ svcOps[k].op = "remove" => k = 4
      /\ svcOps[k].op = "write" => (k = 4 \/ (k = 5 /\ svcOps[4].op = "remove"))
      /\ svcOps[k].op = "reload" =>
           (k > 1 /\ svcOps[k - 1] = [op |-> "write", ok |-> TRUE])
      /\ svcOps[k].op = "enable" =>
           (k > 1 /\ svcOps[k - 1] = [op |-> "reload", ok |-> TRUE])
      /\ svcOps[k].op = "start" =>
           (k > 1 /\ svcOps[k - 1] = [op |-> "enable", ok |-> TRUE])
      /\ svcOps[k].op = "status" =>
           (k > 1 /\ svcOps[k - 1] = [op |-> "start", ok |-> TRUE])
      /\ (svcOps[k].op \in {"write", "reload", "enable", "start"} /\ ~svcOps[k].ok) =>
           (k = Len(svcOps) /\ pc = "returned")

\* every step of removeService failed, the installation went on and
\* stopped at the failed enable: the service was not started
C16_Witness ==
    /\ pc = "returned"
    /\ Len(svcOps) = 7
    /\ \A k \in 1..4 : ~svcOps[k].ok
    /\ svcOps[7] = [op |-> "enable", ok |-> FALSE]

\* C17 (no send blocks): in the WaitGroup variant neither channel ever
\* holds more than len(nodes) values; a probe goroutine whose pingNode has
\* returned can always perform its send at once, into a channel that is
\* open and not full, also while main is still ranging over results and
\* has not started to read errs; and in every state of a cycle some step
\* of the program is possible.
C17_NoBlockingSend ==
    variant = "wg" =>
      /\ Len(results) <= Len(nodes)
      /\ Len(errs) <= Len(nodes)
      /\ \A p \in PIdx :
           pstate[p] = "ret" =>
             /\ ENABLED ProbeSend(p)
             /\ IF ret[p] = "ok"
                  THEN ~resultsClosed /\ Len(results) < Len(nodes)
                  ELSE ~errsClosed /\ Len(errs) < Len(nodes)
      /\ InCycle => ENABLED Next

\* every probe of a cycle over the longest list has failed and sent its
\* error: errs is full while main still ranges over results
C17_Witness ==
    /\ variant = "wg"
    /\ pc = "results"
    /\ Len(nodes) = MaxNodes
    /\ Len(errs) = Len(nodes)
    /\ \A p \in PIdx : pstate[p] \in {"sent", "done"}

\* C18 (no send on a closed channel, no double close): the process never
\* panics once the run loop has started (the only panic is the one of
\* line 223, before the flags are parsed); in the WaitGroup variant a channel is closed only while every
\* probe goroutine of the cycle is over (its send done, its wg.Done
\* called) and the WaitGroup is at zero; errs is closed only after
\* results; the closer goroutine exists only after the range loop has
\* made all its wg.Add calls, and it goes once through wait, close(results),
\* close(errs); each channel goes from open to closed only by that step of
\* the closer and is open again only as the new channel of the next
\* iteration; and when main sleeps both channels are closed.
C18_CloseSafety ==
    /\ [](pc = "panic" => (cycle = 0 /\ ~everLaunched))
    /\ [](variant = "wg" =>
            /\ (resultsClosed \/ errsClosed) =>
                 (wg = 0 /\ \A p \in PIdx : pstate[p] \in {"none", "done"})
            /\ errsClosed => resultsClosed
            /\ (closer /= "none" /\ InCycle) => (pc /= "fanout" /\ i > Len(nodes))
            /\ closer \in {"closeErrs", "done"} =>
                 \A p \in PIdx : IsPeer(p) => pstate[p] = "done"
            /\ pc = "sleep" => (resultsClosed /\ errsClosed /\ closer = "done"))
    /\ [][(variant = "wg" /\ closer' /= closer) =>
            <<closer, closer'>> \in {<<"none", "wait">>, <<"wait", "closeErrs">>,
                                    <<"closeErrs", "done">>, <<"done", "none">>}]_vars
    /\ [][(variant = "wg" /\ ~resultsClosed /\ resultsClosed') =>
            (closer = "wait" /\ closer' = "closeErrs")]_vars
    /\ [][(variant = "wg" /\ ~errsClosed /\ errsClosed') =>
            (closer = "closeErrs" /\ closer' = "done")]_vars
    /\ [][(variant = "wg" /\ ((resultsClosed /\ ~resultsClosed')
                               \/ (errsClosed /\ ~errsClosed'))) =>
            (pc = "loop" /\ pc' = "fanout")]_vars

\* the closer has closed results and is about to close errs, after both
\* probes of a cycle over the longest list have sent and finished
C18_Witness ==
    /\ variant = "wg"
    /\ closer = "closeErrs"
    /\ resultsClosed
    /\ ~errsClosed
    /\ Len(nodes) = MaxNodes
    /\ \A p \in PIdx : pstate[p] = "done"
    /\ Len(results) + Len(errs) >= 1

\* C19 (reporting order): in the WaitGroup variant, once main has reported
\* a failure of the cycle (an error taken out of errs) it has left the
\* range over results for good: results is closed and empty, every probe
\* that succeeded has had its result reported, and every probe goroutine
\* of the cycle is over; while main ranges over results no failure has
\* been reported by it.  (That a success is reported while another probe
\* is still running is the reachable state C19_Witness.)
C19_ReportOrder ==
    variant = "wg" =>
      /\ (\E p \in PIdx : log[p].err > 0) =>
           /\ pc \in {"errs", "sleep", "loop"}
           /\ resultsClosed
           /\ results = <<>>
           /\ \A q \in PIdx : ret[q] = "ok" => log[q].res = 1
           /\ \A q \in PIdx : pstate[q] \in {"none", "done"}
           /\ wg = 0
      /\ pc \in {"fanout", "results"} => \A p \in PIdx : log[p].err = 0

\* main has reported the success of one probe while the command of the
\* other probe of the cycle is still running
C19_Witness ==
    /\ variant = "wg"
    /\ pc = "results"
    /\ \E p, q \in PIdx :
         /\ log[p].res = 1
         /\ pstate[q] = "run"
         /\ ~PingCtxDone(q)

====
